---- MODULE Spec2Model ----
(***************************************************************************)
(* Model of the ESP32 mini Bluetooth speaker firmware: the Button class    *)
(* (include/Button.hpp) on top of the Bounce2 debouncer, the three buttons *)
(* polled by loop() (src/main.cpp) and the battery gauge measureBattery(). *)
(*                                                                         *)
(* Time is counted in milliseconds.  The debouncer's timestamps            *)
(* (previous_millis, stateChangeLastTime) are kept relative to millis():   *)
(* sincePrev = millis() - previous_millis and                              *)
(* sinceChange = millis() - stateChangeLastTime, saturating above the      *)
(* largest value the code compares them with.                              *)
(***************************************************************************)
EXTENDS Naturals, Integers, Sequences, FiniteSets

\* The long-press threshold in ms.  Button.hpp:9 sets 330; the model scales
\* it down, keeping it above DefaultInterval + 1, the shortest press the
\* debouncer can register when polled every millisecond.
LONG_PRESS_DURATION == 3

\* The debounce interval of the three buttons of main.cpp.  Button.hpp:13
\* defaults interval_millis to 5; the model scales it down.
DefaultInterval == 1

\* Largest debounce interval a Button is constructed with in NoiseSpec.
MaxInterval == 6

\* Durations saturate one step above the threshold: the code compares them
\* with LONG_PRESS_DURATION only (Button.hpp:27, Button.hpp:33).
DurCap == LONG_PRESS_DURATION + 1

HIGH == TRUE
LOW == FALSE

Buttons == {"left", "right", "center"}

\* main.cpp:89-91: the order in which loop() polls the buttons.
PollOrder == <<"left", "right", "center">>

Min(a, b) == IF a < b THEN a ELSE b

VARIABLES
    btn,         \* per button: the Bounce2 debouncer's fields
    long_press,  \* Button.hpp:25: the function-local static of Button::loop,
                 \* one object shared by every Button instance
    cyc,         \* per button: callbacks invoked in the current press/release cycle
    fired,       \* per button: callbacks invoked by its latest loop() call
    lowRun,      \* NoiseSpec's pin: length of its current run of LOW readings
    ref          \* PairSpec: the world of a second run of the program, in which
                 \* left reads the same pin and right and center stay released

buttonVars == <<btn, long_press, cyc, fired, lowRun, ref>>

VARIABLES
    samples,         \* main.cpp:115: static uint32_t samples[N]
    i,               \* main.cpp:116: static uint32_t i
    batteryVoltage,  \* main.cpp:28
    calls,           \* number of measureBattery() calls so far
    window,          \* the readings ingested since the previous flush
    seen             \* the set of readings ingested so far

gaugeVars == <<samples, i, batteryVoltage, calls, window, seen>>

VARIABLES
    vol   \* the latest volume step: op, the volume bt.get_volume() returned
          \* (got), the value passed to bt.set_volume() (arg), meta.volume

vars == <<buttonVars, gaugeVars, vol>>

\* Debouncer state after the constructor (interval(interval_millis),
\* setPressedState(LOW)) and Button::setup() -> attach() -> begin() with the
\* pulled-up pin reading HIGH: DEBOUNCED_STATE and UNSTABLE_STATE set.
NewButton(interval_millis) ==
    [interval_millis |-> interval_millis,
     unstable |-> HIGH, debounced |-> HIGH, changed |-> FALSE,
     sincePrev |-> 0, sinceChange |-> 0, prevDur |-> 0]

\* millis() advances by dt between two polls.
Elapse(s, dt) ==
    [s EXCEPT !.sincePrev = Min(@ + dt, s.interval_millis),
              !.sinceChange = Min(@ + dt, DurCap)]

\* Debouncer::changeState()
changeState(s) ==
    [s EXCEPT !.debounced = ~@,
              !.changed = TRUE,
              !.prevDur = s.sinceChange,
              !.sinceChange = 0]

\* Debouncer::update() with the raw pin reading `raw` (the default,
\* stable-interval algorithm).
update(s, raw) ==
    LET c == [s EXCEPT !.changed = FALSE] IN
    IF raw # c.unstable
    THEN [c EXCEPT !.sincePrev = 0, !.unstable = raw]
    ELSE IF c.sincePrev >= c.interval_millis /\ raw # c.debounced
         THEN changeState([c EXCEPT !.sincePrev = 0])
         ELSE c

\* Bounce2::Button::isPressed() with setPressedState(LOW)
isPressed(s) == s.debounced = LOW

\* Bounce2::Button::released()
released(s) == s.changed /\ ~isPressed(s)

\* Bounce2::Button::pressed()
pressed(s) == s.changed /\ isPressed(s)

\* Debouncer::currentDuration()
currentDuration(s) == s.sinceChange

\* Debouncer::previousDuration()
previousDuration(s) == s.prevDur

\* Button.hpp:27: the long-press condition
LongCond(s, latch) ==
    isPressed(s) /\ ~latch /\ currentDuration(s) > LONG_PRESS_DURATION

\* A release branch taken whenever the button is not pressed.
ReleasedCondLevel(s) == ~isPressed(s)

\* A release branch taken while the button reads pressed (inverted test).
ReleasedCondInverted(s) == isPressed(s)

\* Button.hpp:31: the release branch is taken on the released() edge
ReleasedCond(s) == released(s)

\* A release branch that invokes shortPress whatever the press lasted.
ShortCondNoCheck(s) == TRUE

\* Button.hpp:33: the short-press condition, evaluated in the release branch
ShortCond(s) == previousDuration(s) < LONG_PRESS_DURATION

NoCalls == [short |-> 0, long |-> 0]

\* One call of Button::loop() for button b, the pin reading `raw`, on the
\* world w = [btn, long_press, cyc, fired].
ButtonLoop(w, b, raw) ==
    LET s0 == w.btn[b]
        s1 == update(s0, raw)
        doLong == LongCond(s1, w.long_press)
        lp1 == IF doLong THEN TRUE ELSE w.long_press
        rel == ReleasedCond(s1)
        lp2 == IF rel THEN FALSE ELSE lp1
        doShort == rel /\ ShortCond(s1)
        \* a cycle's count starts afresh once the button is seen released
        c0 == IF isPressed(s0) THEN w.cyc[b] ELSE NoCalls
        c1 == [short |-> Min(c0.short + (IF doShort THEN 1 ELSE 0), 2),
               long |-> Min(c0.long + (IF doLong THEN 1 ELSE 0), 2)]
    IN [btn |-> [w.btn EXCEPT ![b] = s1],
        long_press |-> lp2,
        cyc |-> [w.cyc EXCEPT ![b] = c1],
        fired |-> [w.fired EXCEPT ![b] =
                     (IF doShort THEN {"short"} ELSE {}) \cup
                     (IF doLong THEN {"long"} ELSE {})]]

World == [btn |-> btn, long_press |-> long_press, cyc |-> cyc, fired |-> fired]

\* The world after millis() advanced by dt.
Aged(w, dt) == [w EXCEPT !.btn = [b \in Buttons |-> Elapse(w.btn[b], dt)]]

\* Length of the pin's run of LOW readings after it read `raw`.
NextLowRun(raw) == IF raw = LOW THEN Min(lowRun + 1, MaxInterval) ELSE 0

Install(w) ==
    /\ btn' = w.btn
    /\ long_press' = w.long_press
    /\ cyc' = w.cyc
    /\ fired' = w.fired

InitButtons(interval_millis) ==
    /\ btn = [b \in Buttons |-> NewButton(interval_millis)]
    /\ long_press = FALSE
    /\ cyc = [b \in Buttons |-> NoCalls]
    /\ fired = [b \in Buttons |-> {}]
    /\ lowRun = 0
    /\ ref = [btn |-> [b \in Buttons |-> NewButton(interval_millis)],
              long_press |-> FALSE,
              cyc |-> [b \in Buttons |-> NoCalls],
              fired |-> [b \in Buttons |-> {}]]

----------------------------------------------------------------------------
(* The battery gauge, main.cpp:112-126.  Voltages are exact fractions      *)
(* <<numerator, denominator>> in lowest terms; NaN is 0/0.                 *)

\* The capacity of the sample buffer.  main.cpp:114 sets 10000; the model
\* scales it down.
N == 3

\* The gauge is followed for this many windows of N readings.
MaxWindows == 3

\* What analogReadMilliVolts(BAT_VOLT) may return, in mV.
SampleValues == {3000, 3150, 3300}

RECURSIVE GCD(_, _)
GCD(a, b) == IF b = 0 THEN a ELSE GCD(b, a % b)

Rat(n, d) == LET g == GCD(n, d) IN <<n \div g, d \div g>>

RAdd(a, b) == Rat(a[1] * b[2] + b[1] * a[2], a[2] * b[2])

RDiv(a, b) == Rat(a[1] * b[2], a[2] * b[1])

NAN == <<0, 0>>

\* main.cpp:113: 6.9f / (22.0f + 6.9f)
factor == RDiv(Rat(69, 10), RAdd(Rat(22, 1), Rat(69, 10)))

\* A voltage that starts at zero instead of NaN.
InitVoltageZero == Rat(0, 1)

\* main.cpp:28: float batteryVoltage = NAN
InitVoltage == NAN

\* A flush one reading early.
FlushDueEarly(i1) == i1 = N - 1

\* A flush one reading late.
FlushDueLate(i1) == i1 = N + 1

\* main.cpp:118: ++i == N
FlushDue(i1) == i1 = N

RECURSIVE SumFrom(_, _)
SumFrom(buf, k) == IF k >= N THEN 0 ELSE buf[k] + SumFrom(buf, k + 1)

\* A sum that leaves out the first slot.
SumSamplesSkipFirst(buf) == SumFrom(buf, 1)

\* main.cpp:120-123: the sum of all N slots
SumSamples(buf) == SumFrom(buf, 0)

\* main.cpp:124: sum / N / factor / 1000.0f
Volts(sum) == RDiv(RDiv(RDiv(Rat(sum, 1), Rat(N, 1)), factor), Rat(1000, 1))

InitGauge ==
    /\ samples = [k \in 0..(N - 1) |-> 0]
    /\ i = 0
    /\ batteryVoltage = InitVoltage
    /\ calls = 0
    /\ window = <<>>
    /\ seen = {}

\* A measureBattery() whose flush also clears the buttons' latch, as a
\* store past the end of the buffer could.
measureBatteryClobbers ==
    \E mv \in SampleValues :
        LET buf == [samples EXCEPT ![i] = mv]
            i1 == i + 1
        IN /\ calls < MaxWindows * N
           /\ samples' = buf
           /\ IF FlushDue(i1)
              THEN /\ i' = 0
                   /\ batteryVoltage' = Volts(SumSamples(buf))
                   /\ long_press' = FALSE
              ELSE /\ i' = i1
                   /\ UNCHANGED <<batteryVoltage, long_press>>
           /\ calls' = calls + 1
           /\ window' = IF Len(window) = N THEN <<mv>> ELSE Append(window, mv)
           /\ seen' = seen \cup {mv}
           /\ UNCHANGED <<btn, cyc, fired, lowRun, ref>>
           /\ UNCHANGED vol

\* main.cpp:112-126: one call of measureBattery(), the ADC reading mv.
measureBattery ==
    \E mv \in SampleValues :
        LET buf == [samples EXCEPT ![i] = mv]
            i1 == i + 1  \* ++i; i stays below N, far from the uint32_t range
        IN /\ calls < MaxWindows * N
           /\ samples' = buf
           /\ IF FlushDue(i1)
              THEN /\ i' = 0
                   /\ batteryVoltage' = Volts(SumSamples(buf))
              ELSE /\ i' = i1
                   /\ UNCHANGED batteryVoltage
           /\ calls' = calls + 1
           /\ window' = IF Len(window) = N THEN <<mv>> ELSE Append(window, mv)
           /\ seen' = seen \cup {mv}
           /\ UNCHANGED buttonVars
           /\ UNCHANGED vol

----------------------------------------------------------------------------

\* main.cpp:89-91: one pass of loop() over the three buttons, one
\* millisecond after the previous pass; pins is what the three pins read.
PollButtons ==
    \E pins \in [Buttons -> BOOLEAN] :
        /\ Install(ButtonLoop(ButtonLoop(ButtonLoop(Aged(World, 1),
                   PollOrder[1], pins[PollOrder[1]]),
                   PollOrder[2], pins[PollOrder[2]]),
                   PollOrder[3], pins[PollOrder[3]]))
        /\ UNCHANGED lowRun
        /\ UNCHANGED <<gaugeVars, ref, vol>>

\* main.cpp:89-91 on a world w: left.loop(); right.loop(); center.loop().
Pass(w, pins) ==
    ButtonLoop(ButtonLoop(ButtonLoop(w,
        PollOrder[1], pins[PollOrder[1]]),
        PollOrder[2], pins[PollOrder[2]]),
        PollOrder[3], pins[PollOrder[3]])

\* The pins of the second run: left's reading kept, the others released.
OthersReleased(pins) == [b \in Buttons |-> IF b = "left" THEN pins[b] ELSE HIGH]

\* One pass of loop() in two runs of the program side by side: the same
\* reading on left's pin, right pressed at will in the first run only.
PollPair ==
    \E pins \in [Buttons -> BOOLEAN] :
        /\ pins["center"] = HIGH
        /\ Install(Pass(Aged(World, 1), pins))
        /\ ref' = Pass(Aged(ref, 1), OthersReleased(pins))
        /\ UNCHANGED lowRun
        /\ UNCHANGED <<gaugeVars, vol>>

\* A program with a single Button: its loop() called one millisecond after
\* the previous call.
PollLeft ==
    \E raw \in BOOLEAN :
        /\ Install(ButtonLoop(Aged(World, 1), "left", raw))
        /\ UNCHANGED lowRun
        /\ UNCHANGED <<gaugeVars, ref, vol>>

\* The same, on a pin whose LOW runs stay shorter than the debounce interval.
PollLeftNoisy ==
    \E raw \in BOOLEAN :
        /\ NextLowRun(raw) < btn["left"].interval_millis
        /\ Install(ButtonLoop(Aged(World, 1), "left", raw))
        /\ lowRun' = NextLowRun(raw)
        /\ UNCHANGED <<gaugeVars, ref, vol>>

\* A millisecond passes without a call of Button::loop().
SkipTick ==
    /\ Install(Aged(World, 1))
    /\ UNCHANGED lowRun
    /\ UNCHANGED <<gaugeVars, ref, vol>>

----------------------------------------------------------------------------
(* The volume steps, main.cpp:165-182.                                     *)

\* What bt.get_volume() may return: an AVRC volume.
Volumes == 0..127

\* static_cast<uint8_t>(x): the value x stored in a uint8_t
U8(x) == x % 256

\* main.cpp:167, main.cpp:179: uint8_t volume = static_cast<uint8_t>(v) + d
StepVolume(v, d) == U8(U8(v) + d)

\* main.cpp:36: meta.volume = 0; no volume step made yet
InitVolume == vol = [op |-> "none", got |-> 0, arg |-> 0, meta |-> 0]

\* main.cpp:165-170: increaseVolume(), bt.get_volume() returning v
increaseVolume ==
    \E v \in Volumes :
        /\ vol' = [op |-> "increase", got |-> v,
                   arg |-> StepVolume(v, 4), meta |-> StepVolume(v, 4)]
        /\ UNCHANGED <<buttonVars, gaugeVars>>

\* main.cpp:177-182: decreaseVolume(), bt.get_volume() returning v
decreaseVolume ==
    \E v \in Volumes :
        /\ vol' = [op |-> "decrease", got |-> v,
                   arg |-> StepVolume(v, -4), meta |-> StepVolume(v, -4)]
        /\ UNCHANGED <<buttonVars, gaugeVars>>

----------------------------------------------------------------------------

Init == InitButtons(DefaultInterval) /\ InitGauge /\ InitVolume

\* A Button constructed with any debounce interval.
AnyInit == (\E iv \in 1..MaxInterval : InitButtons(iv)) /\ InitGauge /\ InitVolume

Next == PollButtons

Spec == Init /\ [][Next]_vars

\* A single button polled every millisecond.
SingleNext == PollLeft

SingleSpec == AnyInit /\ [][SingleNext]_vars

\* A single button on a noisy pin.
NoiseNext == PollLeftNoisy

NoiseSpec == AnyInit /\ [][NoiseNext]_vars

\* A single button whose loop() is called on an arbitrary subset of ticks.
SkipNext == PollLeft \/ SkipTick

SkipSpec == AnyInit /\ [][SkipNext]_vars

\* Two runs of the main loop that agree on left's pin.
PairNext == PollPair

PairSpec == Init /\ [][PairNext]_vars

\* measureBattery() and Button::loop() called in any interleaving.
CallsNext == measureBattery \/ PollLeft

CallsSpec == Init /\ [][CallsNext]_vars

\* The volume callbacks invoked at any current volume.
VolumeNext == increaseVolume \/ decreaseVolume

VolumeSpec == Init /\ [][VolumeNext]_vars

\* The battery gauge fed one reading per call.
GaugeNext == measureBattery

GaugeSpec == Init /\ [][GaugeNext]_vars

----------------------------------------------------------------------------
(* Button claims                                                           *)

\* C1: a single button polled every millisecond: when its release is
\* registered after a stable press of d ms, d <= LONG_PRESS_DURATION gave
\* exactly one short-press and no long-press callback, and
\* d > LONG_PRESS_DURATION gave exactly one long-press and no short-press
\* callback.
C1_ClassifiedByDuration ==
    released(btn["left"]) =>
        IF previousDuration(btn["left"]) <= LONG_PRESS_DURATION
        THEN cyc["left"] = [short |-> 1, long |-> 0]
        ELSE cyc["left"] = [short |-> 0, long |-> 1]

\* C2: for each of the three buttons polled by the main loop, a cycle that
\* ends (release registered) has had exactly one callback invocation.
C2_ExactlyOnePerCycle ==
    \A b \in Buttons :
        released(btn[b]) => cyc[b].short + cyc[b].long = 1

\* C3: for each of the three buttons, the long-press callback is invoked
\* at most once within one press, whatever the other buttons do.
C3_LongAtMostOncePerPress ==
    \A b \in Buttons : cyc[b].long <= 1

\* C4: a press whose stable duration is exactly LONG_PRESS_DURATION yields
\* the short-press callback at its release and no long-press callback.
C4_ThresholdIsShort ==
    (released(btn["left"]) /\ previousDuration(btn["left"]) = LONG_PRESS_DURATION)
        => ("short" \in fired["left"] /\ cyc["left"].long = 0)

\* C5: after every pass of the main loop, a button that is in the stable
\* pressed state for more than LONG_PRESS_DURATION has had its long-press
\* callback invoked during this press, whatever the other buttons do.
C5_LongFiresWhileHeld ==
    \A b \in Buttons :
        (isPressed(btn[b]) /\ currentDuration(btn[b]) > LONG_PRESS_DURATION)
            => cyc[b].long >= 1

\* C6: polled every millisecond on a pin whose LOW runs stay shorter than
\* the debounce interval, the debounced state never leaves released and no
\* callback is ever invoked.
C6_NoiseSuppressed ==
    /\ btn["left"].debounced = HIGH
    /\ ~btn["left"].changed
    /\ fired["left"] = {}
    /\ cyc["left"] = NoCalls

\* C6 witness: with the interval 5, four consecutive LOW readings (a LOW
\* pulse of 4 ms) have been read and the button is still released.
C6_Witness ==
    /\ btn["left"].interval_millis = 5
    /\ lowRun = 4
    /\ btn["left"].unstable = LOW
    /\ btn["left"].sincePrev = 3
    /\ ~isPressed(btn["left"])

\* C7: with loop() called on an arbitrary subset of ticks, a registered
\* cycle of the button ends with exactly one callback invocation, not
\* zero and not two.
C7_SkippingOnlyDelays ==
    released(btn["left"]) =>
        (cyc["left"].short = 1 /\ cyc["left"].long = 0) \/
        (cyc["left"].short = 0 /\ cyc["left"].long = 1)

\* C11: between two loop() calls, for each of the three buttons: the
\* long-press latch is true only if that button is in the stable pressed
\* state and its long-press callback has fired for the current press.
C11_LatchOnlyWhilePressed ==
    \A b \in Buttons :
        long_press => (isPressed(btn[b]) /\ cyc[b].long >= 1)

\* C12: one call of Button::loop() invokes at most one callback: never
\* the short-press and the long-press callback in the same call.
C12_OneCallbackPerCall ==
    \A b \in Buttons : Cardinality(fired[b]) <= 1

\* C12 witness: a call that invoked the long-press callback, and it alone.
C12_Witness ==
    /\ fired["left"] = {"long"}
    /\ isPressed(btn["left"])
    /\ long_press

\* C14: the short-press callback is invoked only by a call that registered
\* the release of a press shorter than the threshold, the long-press
\* callback only by a call that leaves the button stably pressed; a press
\* shorter than the threshold ends with one short-press and no long-press.
C14_EventsInTheirPhase ==
    \A b \in Buttons :
        /\ "short" \in fired[b] =>
               (released(btn[b]) /\ previousDuration(btn[b]) < LONG_PRESS_DURATION)
        /\ "long" \in fired[b] => (isPressed(btn[b]) /\ ~released(btn[b]))
        /\ (released(btn[b]) /\ previousDuration(btn[b]) < LONG_PRESS_DURATION) =>
               (fired[b] = {"short"} /\ cyc[b] = [short |-> 1, long |-> 0])

\* C14 witness: the release of a short press has just been registered and
\* the short-press callback invoked.
C14_Witness ==
    /\ released(btn["left"])
    /\ previousDuration(btn["left"]) = LONG_PRESS_DURATION - 1
    /\ fired["left"] = {"short"}

\* C15: in two runs of the main loop that give left the same pin signal
\* and the other buttons different signals, left's callbacks fire in the
\* same passes.
C15_LeftIndependentOfOthers ==
    fired["left"] = ref.fired["left"]

----------------------------------------------------------------------------
(* Gauge claims                                                            *)

SeqSum(w) == LET RECURSIVE S(_)
                 S(k) == IF k > Len(w) THEN 0 ELSE w[k] + S(k + 1)
             IN S(1)

\* (mean / 1000) / factor, as the claims write it
VoltsOfMean(mean) == RDiv(RDiv(mean, Rat(1000, 1)), factor)

\* C8: a measureBattery() call whose number is not a multiple of N leaves
\* batteryVoltage as it was; only every N-th call may assign it.
C8_OnlyFlushAssigns ==
    [][(calls' = calls + 1 /\ calls' % N # 0) => batteryVoltage' = batteryVoltage]_vars

\* C8 witness: N-1 readings into the second window, the voltage of the
\* first window is still in place.
C8_Witness ==
    /\ calls = 2 * N - 1
    /\ Len(window) = N - 1
    /\ batteryVoltage # NAN
    /\ \E k \in 1..Len(window) : VoltsOfMean(Rat(window[k], 1)) # batteryVoltage

\* C9: after a flush, batteryVoltage is (sum of the N readings ingested
\* since the previous flush / N) / 1000 / factor; for N = 3 and the readings
\* 3000, 3300, 3150 the mean used is 3150 mV.
C9_FlushIsWindowMean ==
    /\ Len(window) = N =>
           batteryVoltage = VoltsOfMean(RDiv(Rat(SeqSum(window), 1), Rat(N, 1)))
    /\ (N = 3 /\ window = <<3000, 3300, 3150>>) =>
           batteryVoltage = VoltsOfMean(Rat(3150, 1))

\* C9 witness: the second flush, of the readings 3000, 3300, 3150, after a
\* first window of other readings.
C9_Witness ==
    /\ calls = 2 * N
    /\ window = <<3000, 3300, 3150>>
    /\ samples[0] = 3000

\* C10: batteryVoltage is NaN before the N-th call and never from the
\* N-th call on; if every reading so far is the same constant c, it is
\* c/1000/factor from the N-th call on.
C10_DefinedFromNthCall ==
    /\ calls < N => batteryVoltage = NAN
    /\ calls >= N => batteryVoltage # NAN
    /\ \A c \in SampleValues :
           (calls >= N /\ seen = {c}) => batteryVoltage = VoltsOfMean(Rat(c, 1))

\* C10 witness: a constant 3000 mV stream, well past the first window.
C10_Witness ==
    /\ seen = {3000}
    /\ calls = 2 * N + 1
    /\ batteryVoltage = RDiv(Rat(3, 1), factor)

\* C13: a call of Button::loop() leaves the sample buffer, the write index
\* and batteryVoltage unchanged, and a call of measureBattery() leaves the
\* buttons' debouncer state and the long-press latch unchanged.
C13_NoSharedState ==
    [][/\ calls' # calls => (btn' = btn /\ long_press' = long_press)
       /\ calls' = calls =>
              (samples' = samples /\ i' = i /\ batteryVoltage' = batteryVoltage)]_vars

\* C13 witness: the gauge has flushed while the button is held with its
\* latch set.
C13_Witness ==
    /\ calls >= N
    /\ i = 0
    /\ batteryVoltage # NAN
    /\ long_press
    /\ isPressed(btn["left"])

\* C16: the write index stays inside the buffer, 0 <= i < N, and after
\* every call it is the number of calls so far modulo N.
C16_IndexInBuffer ==
    /\ i \in 0..(N - 1)
    /\ i \in DOMAIN samples
    /\ i = calls % N

\* C16 witness: one reading into the third window, after two wraps.
C16_Witness ==
    /\ calls = 2 * N + 1
    /\ i = 1

----------------------------------------------------------------------------
(* Volume claims                                                           *)

\* C17: increaseVolume() passes a value between the current volume and 127
\* to set_volume, decreaseVolume() a value between 0 and the current
\* volume, and meta.volume is the value passed.
C17_VolumeStepsInRange ==
    /\ vol.op = "increase" => (vol.got <= vol.arg /\ vol.arg <= 127)
    /\ vol.op = "decrease" => (0 <= vol.arg /\ vol.arg <= vol.got)
    /\ vol.meta = vol.arg

====
